---- MODULE Spec2Model ----
(***************************************************************************)
(* A model of the storage driver of go-json-database (src/main.go): the    *)
(* Driver with its registry of per-collection mutexes, and Write, Read,    *)
(* Update and Delete as sequences of atomic steps (one per lock operation  *)
(* or system call) over a filesystem tree.                                 *)
(*                                                                         *)
(* Strings.  A Go string is modelled as the sequence of its parts between  *)
(* "." characters: "x" is <<"x">>, "x.json" is <<"x", "json">>, the empty  *)
(* string is <<"">> and "." is <<"", "">>.  s + ".json" is then            *)
(* Append(s, "json") for every s.  No modelled string holds a path         *)
(* separator and none is "..".                                             *)
(*                                                                         *)
(* Paths.  A cleaned path is the sequence of its elements, starting with   *)
(* the element of the storage root.                                        *)
(*                                                                         *)
(* Documents.  A value is a JSON number given by its decimal digits, or    *)
(* Unsupported, a Go value encoding/json cannot encode (a channel).  File  *)
(* contents are sequences of one-character strings.                        *)
(***************************************************************************)
EXTENDS Naturals, Sequences, FiniteSets, TLC

VARIABLES
    fs,        \* the filesystem: existing path -> [isDir, data]
    regLock,   \* Driver.mutex: the process holding it, or NoProc
    mutexes,   \* Driver.mutexes: collection string -> index into locked
    locked,    \* the sync.Mutex objects made so far: TRUE when locked
    proc,      \* each caller's call: arguments, position, locals, result
    lastAcq,   \* history: final path -> value of the last Write to lock for it
    committed, \* history: final path -> value of the last Write renamed onto it
    prev       \* history: caller -> its previous call, when a successful Write

vars == <<fs, regLock, mutexes, locked, proc, lastAcq, committed, prev>>

hvars == <<lastAcq, committed, prev>>

----------------------------------------------------------------------------
(* Strings and paths *)

EmptyStr == <<"">>
DotStr == <<"", "">>
CollA == <<"A">>
CollB == <<"B">>
ResX == <<"x">>
ResXJson == <<"x", "json">>

\* s + "." + ext
Concat(s, ext) == Append(s, ext)

\* d.dir after filepath.Clean
Root == << <<"db">> >>

\* An element filepath.Join keeps: it drops empty elements, and Clean drops ".".
Kept(e) == e # EmptyStr /\ e # DotStr

\* filepath.Join(base, elems...) for a cleaned base
Join(base, elems) == base \o SelectSeq(elems, Kept)

\* path + "." + ext, for a cleaned path
PathConcat(p, ext) == [p EXCEPT ![Len(p)] = Append(@, ext)]

IsPrefix(p, q) == Len(p) <= Len(q) /\ SubSeq(q, 1, Len(p)) = p

Prefixes(p) == {SubSeq(p, 1, n) : n \in 1..Len(p)}

Parent(p) == SubSeq(p, 1, Len(p) - 1)

\* f with key k set to val, k new or not
Put(f, k, val) == [x \in DOMAIN f \cup {k} |-> IF x = k THEN val ELSE f[x]]

----------------------------------------------------------------------------
(* The filesystem *)

DirNode == [isDir |-> TRUE, data |-> <<>>]

FileNode(d) == [isDir |-> FALSE, data |-> d]

\* The directory a new entry p would be made in exists. The parent of the
\* storage root always does.
ParentIsDir(f, p) ==
    Len(p) = 1 \/ (Parent(p) \in DOMAIN f /\ f[Parent(p)].isDir)

\* A variant of MkdirAll that empties a directory it finds.
Recreated(f, p) ==
    [q \in {x \in DOMAIN f : ~IsPrefix(p, x)} \cup Prefixes(p) |->
        IF q \in DOMAIN f /\ ~IsPrefix(p, q) THEN f[q] ELSE DirNode]

\* os.MkdirAll(p) succeeds unless an element of p is a regular file.
MkdirAllOk(f, p) == \A q \in Prefixes(p) : q \in DOMAIN f => f[q].isDir

MkdirAll(f, p) ==
    [q \in DOMAIN f \cup Prefixes(p) |-> IF q \in DOMAIN f THEN f[q] ELSE DirNode]

\* os.RemoveAll(p): p and everything below it, no error when p is absent.
RemoveAll(f, p) == [q \in {x \in DOMAIN f : ~IsPrefix(p, x)} |-> f[q]]

\* ioutil.WriteFile, first half: OpenFile(O_WRONLY|O_CREATE|O_TRUNC).
OpenTruncOk(f, p) == ParentIsDir(f, p) /\ (p \in DOMAIN f => ~f[p].isDir)

OpenTrunc(f, p) == Put(f, p, FileNode(<<>>))

\* ioutil.WriteFile, second half: the bytes written so far through the open
\* descriptor. A file unlinked meanwhile is no longer in the tree.
WriteBytes(f, p, d) ==
    IF p \in DOMAIN f /\ ~f[p].isDir THEN [f EXCEPT ![p] = FileNode(d)] ELSE f

\* A variant of Rename that leaves an existing target as it is.
RenameNoReplace(f, old, new) ==
    [q \in (DOMAIN f \ {old}) \cup {new} |-> IF q \in DOMAIN f \ {old} THEN f[q] ELSE f[old]]

\* os.Rename(old, new) of a regular file, replacing new atomically.
RenameOk(f, old, new) ==
    /\ old \in DOMAIN f
    /\ ParentIsDir(f, new)
    /\ (new \in DOMAIN f => ~f[new].isDir)

Rename(f, old, new) ==
    [q \in (DOMAIN f \ {old}) \cup {new} |-> IF q = new THEN f[old] ELSE f[q]]

\* ioutil.ReadFile(p)
ReadFileOk(f, p) == p \in DOMAIN f /\ ~f[p].isDir

\* stat(path): os.Stat(path), and os.Stat(path + ".json") when path does not
\* exist.
statOk(f, path) == path \in DOMAIN f \/ PathConcat(path, "json") \in DOMAIN f

statInfo(f, path) ==
    IF path \in DOMAIN f THEN f[path] ELSE f[PathConcat(path, "json")]

\* The regular files below directory dir, with their contents.
FilesUnder(f, dir) ==
    [q \in {x \in DOMAIN f : IsPrefix(dir, x) /\ ~f[x].isDir} |-> f[q].data]

NoFiles == [q \in {} |-> <<>>]

----------------------------------------------------------------------------
(* Documents *)

V7 == <<"7">>
V75 == <<"7", "5">>
Unsupported == <<"chan">>
NoValue == <<>>

Digit == {"0", "1", "2", "3", "4", "5", "6", "7", "8", "9"}

IsNumber(s) == Len(s) > 0 /\ \A i \in 1..Len(s) : s[i] \in Digit

\* json.MarshalIndent(v, "", "\t")
MarshalOk(v) == IsNumber(v)

MarshalIndent(v) == v

\* b = append(b, byte('\n'))
Serialize(v) == Append(MarshalIndent(v), "\n")

RECURSIVE TrimSpace(_)
TrimSpace(b) ==
    IF Len(b) > 0 /\ b[Len(b)] = "\n" THEN TrimSpace(SubSeq(b, 1, Len(b) - 1))
    ELSE b

\* json.Unmarshal(b, &v): the JSON value, with white space after it allowed.
UnmarshalOk(b) == IsNumber(TrimSpace(b))

Unmarshal(b) == TrimSpace(b)

----------------------------------------------------------------------------
(* Callers *)

Procs == {"p1", "p2"}
NoProc == "none"

\* A caller between calls, before its first one. dead: the process was
\* killed. snap is history: the files of the collection directory when the
\* call took the collection lock. files and records are ReadAll's locals:
\* the directory entries still to read, and what was read (with, as history,
\* the path each record was read from).
Blank ==
    [op |-> "none", c |-> EmptyStr, r |-> EmptyStr, v |-> NoValue, pc |-> "idle",
     m |-> 0, fi |-> "none", off |-> 0, err |-> "none", out |-> NoValue,
     dead |-> FALSE, snap |-> NoFiles, files |-> <<>>, records |-> <<>>]

Resting(p) == ~proc[p].dead /\ proc[p].pc \in {"idle", "done"}

\* The call's frame on entry.
Enter(op, c, r, v, pc) ==
    [Blank EXCEPT !.op = op, !.c = c, !.r = r, !.v = v, !.pc = pc]

At(p, op, pc) == ~proc[p].dead /\ proc[p].op = op /\ proc[p].pc = pc

Goto(p, pc) == proc' = [proc EXCEPT ![p].pc = pc]

\* The frame after the call has returned: its arguments and its result.
Returned(fr, e, o) ==
    [fr EXCEPT !.pc = "done", !.err = e, !.out = o, !.m = 0, !.fi = "none",
               !.off = 0, !.snap = NoFiles, !.files = <<>>]

\* A return before any lock is taken.
Return(p, e, o) ==
    /\ proc' = [proc EXCEPT ![p] = Returned(@, e, o)]
    /\ UNCHANGED locked

\* A variant of Unlocked: an Unlock() written at the end of the body, which
\* an early return skips.
UnlockedOnSuccess(lk, m, e) == IF e = "ok" THEN [lk EXCEPT ![m] = FALSE] ELSE lk

\* The deferred mutex.Unlock() of mutex m, on a return with result e.
Unlocked(lk, m, e) == [lk EXCEPT ![m] = FALSE]

\* A return of Write, Update or Delete after mutex.Lock(): the deferred
\* mutex.Unlock() runs, whatever the result e.
ReturnUnlock(p, e) ==
    /\ proc' = [proc EXCEPT ![p] = Returned(@, e, NoValue)]
    /\ locked' = Unlocked(locked, proc[p].m, e)

----------------------------------------------------------------------------
(* getOrCreateMutex and mutex.Lock(), shared by Write, Update and Delete *)

Locking(p) == ~proc[p].dead /\ proc[p].op \in {"Write", "Update", "Delete"}

\* The first step of the body after mutex.Lock().
Body(op) == IF op = "Write" THEN "mkdir" ELSE "stat"

\* A frame between mutex.Lock() and the return.
InBody(fr) ==
    /\ fr.op \in {"Write", "Update", "Delete"}
    /\ fr.pc \in {"mkdir", "stat", "open", "write", "rename", "remove"}

\* d.mutex.Lock()
RegistryLock(p) ==
    /\ Locking(p) /\ proc[p].pc = "getmutex"
    /\ regLock = NoProc
    /\ regLock' = p
    /\ Goto(p, "registry")
    /\ UNCHANGED <<fs, mutexes, locked, hvars>>

\* A variant of Found: the lookup never finds the entry.
NeverFound(reg, c) == FALSE

\* m, ok := d.mutexes[collection]
Found(reg, c) == c \in DOMAIN reg

\* A variant of TheMutex: one mutex for every collection.
OneMutex(reg, lk, c) == 1

\* The mutex getOrCreateMutex returns: the one found, or the one made now.
TheMutex(reg, lk, c) == IF Found(reg, c) THEN reg[c] ELSE Len(lk) + 1

\* if !ok { ...; d.mutexes[collection] = m }
Registered(reg, lk, c) == IF Found(reg, c) THEN reg ELSE Put(reg, c, Len(lk) + 1)

\* if !ok { m = &sync.Mutex{}; ... }
Allocated(reg, lk, c) == IF Found(reg, c) THEN lk ELSE Append(lk, FALSE)

\* The body of getOrCreateMutex and its deferred d.mutex.Unlock().
getOrCreateMutex(p) ==
    /\ Locking(p) /\ proc[p].pc = "registry"
    /\ regLock = p
    /\ mutexes' = Registered(mutexes, locked, proc[p].c)
    /\ locked' = Allocated(mutexes, locked, proc[p].c)
    /\ regLock' = NoProc
    /\ proc' = [proc EXCEPT ![p].pc = "lock",
                            ![p].m = TheMutex(mutexes, locked, proc[p].c)]
    /\ UNCHANGED <<fs, hvars>>

\* A variant of CanLock: a lock that never waits.
NeverWaits(lk, m) == TRUE

\* sync.Mutex.Lock can return
CanLock(lk, m) == ~lk[m]

\* mutex.Lock()
MutexLock(p) ==
    /\ Locking(p) /\ proc[p].pc = "lock"
    /\ CanLock(locked, proc[p].m)
    /\ locked' = [locked EXCEPT ![proc[p].m] = TRUE]
    /\ proc' = [proc EXCEPT ![p].pc = Body(proc[p].op),
                            ![p].snap = FilesUnder(fs, Join(Root, <<proc[p].c>>))]
    /\ UNCHANGED <<fs, regLock, mutexes>>

----------------------------------------------------------------------------
(* Write *)

WriteDir(c) == Join(Root, <<c>>)

fnlPath(c, r) == Join(WriteDir(c), <<Concat(r, "json")>>)

\* A variant of tmpPath: no staging, the bytes go to the final path.
DirectPath(c, r) == fnlPath(c, r)

tmpPath(c, r) == PathConcat(fnlPath(c, r), "tmp")

\* Lines 64-72.
CallWrite(p, c, r, v) ==
    /\ Resting(p)
    /\ proc' = [proc EXCEPT ![p] =
          IF c = EmptyStr
          THEN Returned(Enter("Write", c, r, v, "idle"), "Missing collection", NoValue)
          ELSE IF r = EmptyStr
          THEN Returned(Enter("Write", c, r, v, "idle"), "Missing resource", NoValue)
          ELSE Enter("Write", c, r, v, "getmutex")]
    /\ UNCHANGED <<fs, regLock, mutexes, locked>>

\* Lines 80-88: os.MkdirAll(dir), then json.MarshalIndent(v).
WriteMkdirAll(p) ==
    /\ At(p, "Write", "mkdir")
    /\ IF ~MkdirAllOk(fs, WriteDir(proc[p].c))
       THEN /\ ReturnUnlock(p, "IOError")
            /\ UNCHANGED fs
       ELSE /\ fs' = MkdirAll(fs, WriteDir(proc[p].c))
            /\ IF MarshalOk(proc[p].v)
               THEN Goto(p, "open") /\ UNCHANGED locked
               ELSE ReturnUnlock(p, "Unsupported")
    /\ UNCHANGED <<regLock, mutexes, hvars>>

\* Line 92, ioutil.WriteFile(tmpPath, ...): the file is opened and truncated.
WriteTmpOpen(p) ==
    /\ At(p, "Write", "open")
    /\ IF OpenTruncOk(fs, tmpPath(proc[p].c, proc[p].r))
       THEN /\ fs' = OpenTrunc(fs, tmpPath(proc[p].c, proc[p].r))
            /\ Goto(p, "write")
            /\ UNCHANGED locked
       ELSE /\ ReturnUnlock(p, "NotFound")
            /\ UNCHANGED fs
    /\ UNCHANGED <<regLock, mutexes, hvars>>

\* Line 92, ioutil.WriteFile(tmpPath, ...): more of b reaches the file.
WriteTmpData(p) ==
    /\ At(p, "Write", "write")
    /\ \E n \in (proc[p].off + 1)..Len(Serialize(proc[p].v)) :
          /\ fs' = WriteBytes(fs, tmpPath(proc[p].c, proc[p].r),
                              SubSeq(Serialize(proc[p].v), 1, n))
          /\ proc' = [proc EXCEPT
                ![p].off = IF n = Len(Serialize(proc[p].v)) THEN 0 ELSE n,
                ![p].pc = IF n = Len(Serialize(proc[p].v)) THEN "rename" ELSE "write"]
    /\ UNCHANGED <<regLock, mutexes, locked, hvars>>

\* Line 96: os.Rename(tmpPath, fnlPath), and the return.
WriteRename(p) ==
    /\ At(p, "Write", "rename")
    /\ IF RenameOk(fs, tmpPath(proc[p].c, proc[p].r), fnlPath(proc[p].c, proc[p].r))
       THEN /\ fs' = Rename(fs, tmpPath(proc[p].c, proc[p].r), fnlPath(proc[p].c, proc[p].r))
            /\ ReturnUnlock(p, "ok")
       ELSE /\ ReturnUnlock(p, "NotFound")
            /\ UNCHANGED fs
    /\ UNCHANGED <<regLock, mutexes>>

----------------------------------------------------------------------------
(* Read *)

record(c, r) == Join(Root, <<c, r>>)

\* Lines 100-108.
CallRead(p, c, r) ==
    /\ Resting(p)
    /\ proc' = [proc EXCEPT ![p] =
          IF c = EmptyStr
          THEN Returned(Enter("Read", c, r, NoValue, "idle"), "Missing collection", NoValue)
          ELSE IF r = EmptyStr
          THEN Returned(Enter("Read", c, r, NoValue, "idle"), "Missing resource", NoValue)
          ELSE Enter("Read", c, r, NoValue, "stat")]
    /\ UNCHANGED <<fs, regLock, mutexes, locked>>

\* Lines 110-112: stat(record).
ReadStat(p) ==
    /\ At(p, "Read", "stat")
    /\ IF statOk(fs, record(proc[p].c, proc[p].r))
       THEN Goto(p, "readfile") /\ UNCHANGED locked
       ELSE Return(p, "NotFound", NoValue)
    /\ UNCHANGED <<fs, regLock, mutexes, hvars>>

\* The file Read reads: record + ".json"
ReadPath(c, r) == PathConcat(record(c, r), "json")

\* What Read returns: lines 114-120.
ReadResult(fr, f) ==
    IF ~ReadFileOk(f, ReadPath(fr.c, fr.r))
    THEN Returned(fr, "NotFound", NoValue)
    ELSE IF UnmarshalOk(f[ReadPath(fr.c, fr.r)].data)
    THEN Returned(fr, "ok", Unmarshal(f[ReadPath(fr.c, fr.r)].data))
    ELSE Returned(fr, "SyntaxError", NoValue)

\* Lines 114-120: ioutil.ReadFile(record + ".json"), then json.Unmarshal.
ReadFile(p) ==
    /\ At(p, "Read", "readfile")
    /\ proc' = [proc EXCEPT ![p] = ReadResult(@, fs)]
    /\ UNCHANGED <<fs, regLock, mutexes, locked, hvars>>

----------------------------------------------------------------------------
(* Update *)

UpdatePath(c, r) == Join(Root, <<c, Concat(r, "json")>>)

\* A variant of CallUpdate: no argument is checked, as in Delete.
CallUpdateUnchecked(p, c, r, v) ==
    /\ Resting(p)
    /\ proc' = [proc EXCEPT ![p] = Enter("Update", c, r, v, "getmutex")]
    /\ UNCHANGED <<fs, regLock, mutexes, locked>>

\* Lines 152-160.
CallUpdate(p, c, r, v) ==
    /\ Resting(p)
    /\ proc' = [proc EXCEPT ![p] =
          IF c = EmptyStr
          THEN Returned(Enter("Update", c, r, v, "idle"), "Missing collection", NoValue)
          ELSE IF r = EmptyStr
          THEN Returned(Enter("Update", c, r, v, "idle"), "Missing resource", NoValue)
          ELSE Enter("Update", c, r, v, "getmutex")]
    /\ UNCHANGED <<fs, regLock, mutexes, locked>>

\* Lines 166-174: stat(dir), then json.MarshalIndent(v).
UpdateStat(p) ==
    /\ At(p, "Update", "stat")
    /\ IF ~statOk(fs, UpdatePath(proc[p].c, proc[p].r))
       THEN ReturnUnlock(p, "NotFound")
       ELSE IF ~MarshalOk(proc[p].v)
       THEN ReturnUnlock(p, "Unsupported")
       ELSE Goto(p, "open") /\ UNCHANGED locked
    /\ UNCHANGED <<fs, regLock, mutexes, hvars>>

\* Line 178, ioutil.WriteFile(dir, ...): the file is opened and truncated.
UpdateOpen(p) ==
    /\ At(p, "Update", "open")
    /\ IF OpenTruncOk(fs, UpdatePath(proc[p].c, proc[p].r))
       THEN /\ fs' = OpenTrunc(fs, UpdatePath(proc[p].c, proc[p].r))
            /\ Goto(p, "write")
            /\ UNCHANGED locked
       ELSE /\ ReturnUnlock(p, "NotFound")
            /\ UNCHANGED fs
    /\ UNCHANGED <<regLock, mutexes, hvars>>

\* Line 178, ioutil.WriteFile(dir, ...): more of b reaches the file; the
\* return after the last of it.
UpdateData(p) ==
    /\ At(p, "Update", "write")
    /\ \E n \in (proc[p].off + 1)..Len(Serialize(proc[p].v)) :
          /\ fs' = WriteBytes(fs, UpdatePath(proc[p].c, proc[p].r),
                              SubSeq(Serialize(proc[p].v), 1, n))
          /\ IF n = Len(Serialize(proc[p].v))
             THEN ReturnUnlock(p, "ok")
             ELSE proc' = [proc EXCEPT ![p].off = n] /\ UNCHANGED locked
    /\ UNCHANGED <<regLock, mutexes, hvars>>

----------------------------------------------------------------------------
(* Delete *)

\* dir := filepath.Join(d.dir, filepath.Join(collection, resource))
DeletePath(c, r) == Join(Root, <<c, r>>)

\* Lines 182-184: no argument is checked.
CallDelete(p, c, r) ==
    /\ Resting(p)
    /\ proc' = [proc EXCEPT ![p] = Enter("Delete", c, r, NoValue, "getmutex")]
    /\ UNCHANGED <<fs, regLock, mutexes, locked>>

\* Lines 190-192: stat(dir) and the first case of the switch.
DeleteStat(p) ==
    /\ At(p, "Delete", "stat")
    /\ IF statOk(fs, DeletePath(proc[p].c, proc[p].r))
       THEN /\ proc' = [proc EXCEPT ![p].pc = "remove",
                   ![p].fi = IF statInfo(fs, DeletePath(proc[p].c, proc[p].r)).isDir
                             THEN "dir" ELSE "file"]
            /\ UNCHANGED locked
       ELSE ReturnUnlock(p, "NotFound")
    /\ UNCHANGED <<fs, regLock, mutexes, hvars>>

\* What os.RemoveAll is called on: lines 194-198.
RemoveTarget(fi, dir) == IF fi = "dir" THEN dir ELSE PathConcat(dir, "json")

\* Lines 194-198: os.RemoveAll, and the return.
DeleteRemove(p) ==
    /\ At(p, "Delete", "remove")
    /\ fs' = RemoveAll(fs, RemoveTarget(proc[p].fi, DeletePath(proc[p].c, proc[p].r)))
    /\ ReturnUnlock(p, "ok")
    /\ UNCHANGED <<regLock, mutexes, hvars>>

----------------------------------------------------------------------------
(* ReadAll *)

\* The order of the parts of names, as Go compares the strings they are parts
\* of: the empty part first, then by the first byte that differs.
Rank(part) ==
    CASE part = "" -> 0
      [] part = "A" -> 1
      [] part = "B" -> 2
      [] part = "db" -> 3
      [] part = "json" -> 4
      [] part = "tmp" -> 5
      [] OTHER -> 6

\* a < b as strings
RECURSIVE Less(_, _)
Less(a, b) ==
    IF a = <<>> THEN b # <<>>
    ELSE IF b = <<>> THEN FALSE
    ELSE IF Head(a) = Head(b) THEN Less(Tail(a), Tail(b))
    ELSE Rank(Head(a)) < Rank(Head(b))

\* The paths of set S, sorted by their last element.
RECURSIVE Sorted(_)
Sorted(S) ==
    IF S = {} THEN <<>>
    ELSE LET first == CHOOSE q \in S :
                         \A x \in S \ {q} : Less(q[Len(q)], x[Len(x)])
         IN <<first>> \o Sorted(S \ {first})

\* files, _ := ioutil.ReadDir(dir): the entries of dir sorted by name, and
\* nothing when dir cannot be read as a directory (the error is dropped).
ReadDir(f, dir) ==
    IF dir \in DOMAIN f /\ f[dir].isDir
    THEN Sorted({q \in DOMAIN f : Len(q) = Len(dir) + 1 /\ IsPrefix(dir, q)})
    ELSE <<>>

\* dir := filepath.Join(d.dir, collection)
ReadAllDir(c) == Join(Root, <<c>>)

\* Lines 124-128.
CallReadAll(p, c) ==
    /\ Resting(p)
    /\ proc' = [proc EXCEPT ![p] =
          IF c = EmptyStr
          THEN Returned(Enter("ReadAll", c, EmptyStr, NoValue, "idle"),
                        "Missing collection", NoValue)
          ELSE Enter("ReadAll", c, EmptyStr, NoValue, "stat")]
    /\ UNCHANGED <<fs, regLock, mutexes, locked>>

\* Lines 130-132: stat(dir).
ReadAllStat(p) ==
    /\ At(p, "ReadAll", "stat")
    /\ IF statOk(fs, ReadAllDir(proc[p].c))
       THEN Goto(p, "readdir") /\ UNCHANGED locked
       ELSE Return(p, "NotFound", NoValue)
    /\ UNCHANGED <<fs, regLock, mutexes, hvars>>

\* Lines 134-138: ioutil.ReadDir(dir); with no entry the loop is skipped and
\* nil records are returned with a nil error.
ReadAllReadDir(p) ==
    /\ At(p, "ReadAll", "readdir")
    /\ proc' = [proc EXCEPT ![p] =
          IF ReadDir(fs, ReadAllDir(proc[p].c)) = <<>>
          THEN Returned(@, "ok", NoValue)
          ELSE [@ EXCEPT !.pc = "readfile",
                         !.files = ReadDir(fs, ReadAllDir(proc[p].c))]]
    /\ UNCHANGED <<fs, regLock, mutexes, locked, hvars>>

\* The frame after one turn of the loop at lines 138-146, and the return at
\* line 142 or, after the last entry, at line 148.
ReadAllResult(fr, f) ==
    IF ~ReadFileOk(f, Head(fr.files))
    THEN [Returned(fr, IF Head(fr.files) \in DOMAIN f THEN "IOError" ELSE "NotFound",
                   NoValue) EXCEPT !.records = <<>>]
    ELSE IF Tail(fr.files) = <<>>
    THEN [Returned(fr, "ok", NoValue) EXCEPT
             !.records = Append(@, [path |-> Head(fr.files),
                                    data |-> f[Head(fr.files)].data])]
    ELSE [fr EXCEPT !.files = Tail(@),
                    !.records = Append(@, [path |-> Head(fr.files),
                                           data |-> f[Head(fr.files)].data])]

\* Lines 138-148: ioutil.ReadFile of the next entry.
ReadAllReadFile(p) ==
    /\ At(p, "ReadAll", "readfile")
    /\ proc' = [proc EXCEPT ![p] = ReadAllResult(@, fs)]
    /\ UNCHANGED <<fs, regLock, mutexes, locked, hvars>>

----------------------------------------------------------------------------
(* Failing system calls: a full disk, a permission, a device error *)

\* Lines 80-82: os.MkdirAll fails.
WriteMkdirAllFails(p) ==
    /\ At(p, "Write", "mkdir")
    /\ ReturnUnlock(p, "IOError")
    /\ UNCHANGED <<fs, regLock, mutexes, hvars>>

\* Lines 92-94: ioutil.WriteFile fails, at the open or after part of b has
\* reached the temporary file.
WriteTmpFails(p) ==
    /\ Locking(p) /\ proc[p].op = "Write" /\ proc[p].pc \in {"open", "write"}
    /\ ReturnUnlock(p, "IOError")
    /\ UNCHANGED <<fs, regLock, mutexes, hvars>>

\* Line 96: os.Rename fails.
WriteRenameFails(p) ==
    /\ At(p, "Write", "rename")
    /\ ReturnUnlock(p, "IOError")
    /\ UNCHANGED <<fs, regLock, mutexes, hvars>>

\* Line 178: ioutil.WriteFile fails, at the open or after part of b has
\* reached the file.
UpdateWriteFails(p) ==
    /\ Locking(p) /\ proc[p].op = "Update" /\ proc[p].pc \in {"open", "write"}
    /\ ReturnUnlock(p, "IOError")
    /\ UNCHANGED <<fs, regLock, mutexes, hvars>>

\* Lines 195, 198: os.RemoveAll fails.
DeleteRemoveFails(p) ==
    /\ At(p, "Delete", "remove")
    /\ ReturnUnlock(p, "IOError")
    /\ UNCHANGED <<fs, regLock, mutexes, hvars>>

\* Lines 114-118: ioutil.ReadFile fails.
ReadFileFails(p) ==
    /\ At(p, "Read", "readfile")
    /\ Return(p, "IOError", NoValue)
    /\ UNCHANGED <<fs, regLock, mutexes, hvars>>

\* The process is killed: every call in flight stops where it is, no caller
\* calls again, and the filesystem stays as it is.
Crash ==
    /\ \A p \in Procs : ~proc[p].dead
    /\ proc' = [p \in Procs |-> [proc[p] EXCEPT !.dead = TRUE]]
    /\ UNCHANGED <<fs, regLock, mutexes, locked, hvars>>

----------------------------------------------------------------------------
(* History *)

NoPrev == [op |-> "none", c |-> EmptyStr, r |-> EmptyStr, v |-> NoValue]

\* The call a caller has just returned from, when it is a successful Write
\* or a successful Delete.
LastWrite(fr) ==
    IF fr.op \in {"Write", "Delete"} /\ fr.pc = "done" /\ fr.err = "ok"
    THEN [op |-> fr.op, c |-> fr.c, r |-> fr.r, v |-> fr.v]
    ELSE NoPrev

\* p calls again.
NotePrev(p) ==
    /\ prev' = [prev EXCEPT ![p] = LastWrite(proc[p])]
    /\ UNCHANGED <<lastAcq, committed>>

\* p takes the collection lock.
NoteAcq(p) ==
    /\ lastAcq' = IF proc[p].op = "Write"
                  THEN Put(lastAcq, fnlPath(proc[p].c, proc[p].r), proc[p].v)
                  ELSE lastAcq
    /\ UNCHANGED <<committed, prev>>

\* p's Write returns from os.Rename.
NoteCommit(p) ==
    /\ committed' = IF proc'[p].err = "ok"
                    THEN Put(committed, fnlPath(proc[p].c, proc[p].r), proc[p].v)
                    ELSE committed
    /\ UNCHANGED <<lastAcq, prev>>

----------------------------------------------------------------------------
(* Specifications *)

\* New(dir, nil): the storage root exists, the registry is empty.
Init ==
    /\ fs = [p \in {Root} |-> DirNode]
    /\ regLock = NoProc
    /\ mutexes = [x \in {} |-> 0]
    /\ locked = <<>>
    /\ proc = [p \in Procs |-> Blank]
    /\ lastAcq = [x \in {} |-> NoValue]
    /\ committed = [x \in {} |-> NoValue]
    /\ prev = [p \in Procs |-> NoPrev]

Collections == {CollA, CollB}
Resources == {ResX}
Values == {V7, V75}

LockSteps(p) ==
    \/ RegistryLock(p)
    \/ getOrCreateMutex(p)
    \/ MutexLock(p) /\ UNCHANGED hvars

WriteSteps(p) ==
    \/ WriteMkdirAll(p)
    \/ WriteTmpOpen(p)
    \/ WriteTmpData(p)
    \/ WriteRename(p) /\ UNCHANGED hvars

ReadSteps(p) == ReadStat(p) \/ ReadFile(p)

UpdateSteps(p) == UpdateStat(p) \/ UpdateOpen(p) \/ UpdateData(p)

DeleteSteps(p) == DeleteStat(p) \/ DeleteRemove(p)

Steps(p) ==
    LockSteps(p) \/ WriteSteps(p) \/ ReadSteps(p) \/ UpdateSteps(p) \/ DeleteSteps(p)

Calls(p, Cs, Rs, Vs) ==
    \/ \E c \in Cs, r \in Rs, v \in Vs : CallWrite(p, c, r, v) /\ UNCHANGED hvars
    \/ \E c \in Cs, r \in Rs : CallRead(p, c, r) /\ UNCHANGED hvars
    \/ \E c \in Cs, r \in Rs, v \in Vs : CallUpdate(p, c, r, v) /\ UNCHANGED hvars
    \/ \E c \in Cs, r \in Rs : CallDelete(p, c, r) /\ UNCHANGED hvars

\* Concurrent callers of all four operations, every system call succeeding.
Next == \E p \in Procs : Calls(p, Collections, Resources, Values) \/ Steps(p)

Spec == Init /\ [][Next]_vars

\* Concurrent Writes and Reads, with the history of lock acquisitions and of
\* renames.
NextWrite ==
    \E p \in Procs :
        \/ \E c \in Collections, r \in Resources, v \in Values :
              CallWrite(p, c, r, v) /\ UNCHANGED hvars
        \/ \E c \in Collections, r \in Resources : CallRead(p, c, r) /\ UNCHANGED hvars
        \/ RegistryLock(p)
        \/ getOrCreateMutex(p)
        \/ MutexLock(p) /\ NoteAcq(p)
        \/ WriteMkdirAll(p)
        \/ WriteTmpOpen(p)
        \/ WriteTmpData(p)
        \/ WriteRename(p) /\ NoteCommit(p)
        \/ ReadSteps(p)

SpecWrite == Init /\ [][NextWrite]_vars

\* Values of the fault runs: one that encodes, one that does not.
FaultValues == {V7, Unsupported}

Faults(p) ==
    \/ WriteMkdirAllFails(p)
    \/ WriteTmpFails(p)
    \/ WriteRenameFails(p)
    \/ UpdateWriteFails(p)
    \/ DeleteRemoveFails(p)
    \/ ReadFileFails(p)

\* Concurrent callers of all four operations on one collection, where any
\* system call may fail and a value may be one json cannot encode.
NextFaults ==
    \E p \in Procs : Calls(p, {CollA}, Resources, FaultValues) \/ Steps(p) \/ Faults(p)

SpecFaults == Init /\ [][NextFaults]_vars

\* Concurrent callers of all four operations, and the process killed at any
\* moment.
NextCrash == Next \/ Crash

SpecCrash == Init /\ [][NextCrash]_vars

\* One caller, one call at a time, with arguments that include the empty
\* string, "." and a name that ends in ".json".
Caller == "p1"
SeqCollections == {EmptyStr, CollA}
SeqResources == {EmptyStr, DotStr, ResX, ResXJson}

NextSeq ==
    \/ \E c \in SeqCollections, r \in SeqResources, v \in Values :
          CallWrite(Caller, c, r, v) /\ NotePrev(Caller)
    \/ \E c \in SeqCollections, r \in SeqResources :
          CallRead(Caller, c, r) /\ NotePrev(Caller)
    \/ \E c \in SeqCollections, r \in SeqResources, v \in Values :
          CallUpdate(Caller, c, r, v) /\ NotePrev(Caller)
    \/ \E c \in SeqCollections, r \in SeqResources :
          CallDelete(Caller, c, r) /\ NotePrev(Caller)
    \/ Steps(Caller)

SpecSeq == Init /\ [][NextSeq]_vars

ReadAllSteps(p) == ReadAllStat(p) \/ ReadAllReadDir(p) \/ ReadAllReadFile(p)

\* One caller, one call at a time, of all five operations, with collections
\* that include the empty string and ".", and resources that include the
\* empty string, "." and the name of a collection.
AllCollections == {EmptyStr, DotStr, CollA}
AllResources == {EmptyStr, DotStr, CollA}
AllValues == {V7}

NextAll ==
    \/ \E c \in AllCollections, r \in AllResources, v \in AllValues :
          CallWrite(Caller, c, r, v) /\ NotePrev(Caller)
    \/ \E c \in AllCollections, r \in AllResources :
          CallRead(Caller, c, r) /\ NotePrev(Caller)
    \/ \E c \in AllCollections : CallReadAll(Caller, c) /\ NotePrev(Caller)
    \/ \E c \in AllCollections, r \in AllResources, v \in AllValues :
          CallUpdate(Caller, c, r, v) /\ NotePrev(Caller)
    \/ \E c \in AllCollections, r \in AllResources :
          CallDelete(Caller, c, r) /\ NotePrev(Caller)
    \/ Steps(Caller)
    \/ ReadAllSteps(Caller)

SpecAll == Init /\ [][NextAll]_vars

\* Concurrent Writes and ReadAlls.
NextReadAll ==
    \E p \in Procs :
        \/ \E c \in Collections, r \in Resources, v \in Values :
              CallWrite(p, c, r, v) /\ UNCHANGED hvars
        \/ \E c \in Collections : CallReadAll(p, c) /\ UNCHANGED hvars
        \/ LockSteps(p)
        \/ WriteSteps(p)
        \/ ReadAllSteps(p)

SpecReadAll == Init /\ [][NextReadAll]_vars

LiveValues == {V7}

\* Concurrent callers of the four operations of Next, one value.
NextLive == \E p \in Procs : Calls(p, Collections, Resources, LiveValues) \/ Steps(p)

\* Fair scheduling: a goroutine that can run its next statement runs it in
\* the end (weak fairness of the steps that wait for nothing), and a
\* goroutine blocked in sync.Mutex.Lock gets the mutex in the end when the
\* mutex is released again and again (strong fairness: a sync.Mutex whose
\* waiter has waited over 1ms hands the mutex to the waiter at unlock). No
\* fairness on the calls: a caller may stop calling.
Fairness ==
    \A p \in Procs :
        /\ WF_vars(getOrCreateMutex(p))
        /\ WF_vars(WriteSteps(p) \/ ReadSteps(p) \/ UpdateSteps(p) \/ DeleteSteps(p))
        /\ SF_vars(RegistryLock(p))
        /\ SF_vars(MutexLock(p) /\ UNCHANGED hvars)

SpecLive == Init /\ [][NextLive]_vars /\ Fairness

TypeOK ==
    /\ \A q \in DOMAIN fs : ParentIsDir(fs, q)
    /\ regLock \in Procs \cup {NoProc}

----------------------------------------------------------------------------
(* Properties *)

\* C1: at most one Write, Update or Delete on a collection is between its
\* mutex.Lock() and its return, in every reachable state.
MutualExclusion ==
    \A p, q \in Procs :
        p # q /\ InBody(proc[p]) /\ InBody(proc[q]) => proc[p].c # proc[q].c

\* One call is in its body while another waits for the same collection's lock.
MutualExclusionWitness ==
    \E p, q \in Procs :
        /\ p # q /\ InBody(proc[p])
        /\ Locking(q) /\ proc[q].pc = "lock" /\ proc[q].c = proc[p].c

\* The value the last successful Write to the file Read(c, r) reads left there.
Current(fr) == committed[fnlPath(fr.c, fr.r)]

\* C2: among concurrent Writes, a Read that finds the file returns the
\* complete value of the last Write renamed onto it (the previous content, or
\* the new one once its rename is done), never a partial document; once a
\* Write's rename is done, Read finds the file.
ReadSeesCommitted ==
    [][\A p \in Procs :
        /\ At(p, "Read", "stat") /\ proc'[p] # proc[p]
              /\ fnlPath(proc[p].c, proc[p].r) \in DOMAIN committed
           => proc'[p].pc = "readfile"
        /\ At(p, "Read", "readfile") /\ proc'[p] # proc[p]
           => /\ fnlPath(proc[p].c, proc[p].r) \in DOMAIN committed
              /\ proc'[p].err = "ok"
              /\ proc'[p].out = Current(proc[p])]_vars

\* A Read has returned the previous value while a Write of another value to
\* the same resource has its temporary file complete and not yet renamed.
ReadSeesCommittedWitness ==
    \E p, q \in Procs :
        /\ proc[p].op = "Read" /\ proc[p].pc = "done" /\ proc[p].err = "ok"
        /\ At(q, "Write", "rename")
        /\ proc[q].c = proc[p].c /\ proc[q].r = proc[p].r
        /\ proc[p].out # proc[q].v
        /\ fs[tmpPath(proc[q].c, proc[q].r)].data = Serialize(proc[q].v)

\* A resource file: <root>/<collection>/<name>.json
IsFinal(q) == Len(q) = 3 /\ q[3][Len(q[3])] = "json"

\* A complete serialized document.
Complete(d) == UnmarshalOk(d) /\ d = Serialize(Unmarshal(d))

\* C3: every existing resource file holds a complete serialized document, in
\* every reachable state. The code does not keep this: Update truncates the
\* file and writes it in place.
FinalFilesComplete ==
    \A q \in DOMAIN fs : IsFinal(q) /\ ~fs[q].isDir => Complete(fs[q].data)

\* The files of Write(c, r)'s collection directory, its temporary file aside.
Others(files, c, r) ==
    [q \in DOMAIN files \ {tmpPath(c, r)} |-> files[q]]

\* The file at path q is in files what it is in before: absent, or there with
\* the same content.
SameFile(files, before, q) ==
    /\ q \in DOMAIN files <=> q \in DOMAIN before
    /\ q \in DOMAIN files => files[q] = before[q]

LocksReleased ==
    \A c \in DOMAIN mutexes :
        (\A p \in Procs : ~(InBody(proc[p]) /\ proc[p].c = c))
        => CanLock(locked, mutexes[c])

\* Calls have left by an I/O error and by a serialization error, and the lock
\* is free.
LocksReleasedWitness ==
    \E p, q \in Procs :
        /\ proc[p].pc = "done" /\ proc[p].err = "IOError" /\ proc[p].op = "Update"
        /\ proc[q].pc = "done" /\ proc[q].err = "Unsupported" /\ proc[q].op = "Write"
        /\ ~locked[mutexes[proc[p].c]]

\* C6: once the Writes to a resource have returned, its file holds exactly
\* the serialization of the value of the Write that took the lock last.
LastLockerWins ==
    \A path \in DOMAIN lastAcq :
        (\A p \in Procs : ~(InBody(proc[p]) /\ fnlPath(proc[p].c, proc[p].r) = path))
        => ReadFileOk(fs, path) /\ fs[path].data = Serialize(lastAcq[path])

\* Two Writes of different values to one resource have both succeeded.
LastLockerWinsWitness ==
    \E p, q \in Procs :
        /\ proc[p].op = "Write" /\ proc[p].pc = "done" /\ proc[p].err = "ok"
        /\ proc[q].op = "Write" /\ proc[q].pc = "done" /\ proc[q].err = "ok"
        /\ proc[p].c = proc[q].c /\ proc[p].r = proc[q].r /\ proc[p].v # proc[q].v
        /\ lastAcq[fnlPath(proc[p].c, proc[p].r)] = proc[p].v

\* C7: a Write that cannot take its next step is waiting either for the
\* registry lock or for a call in its body on the same collection, never for
\* one on another collection; and the registry lock is held only by a call in
\* getOrCreateMutex, which can always finish.
NoCrossBlocking ==
    /\ regLock # NoProc
       => proc[regLock].pc = "registry" /\ ENABLED getOrCreateMutex(regLock)
    /\ \A p \in Procs :
          proc[p].op = "Write" /\ ~Resting(p) /\ ~ENABLED Steps(p)
          => \/ proc[p].pc = "getmutex" /\ regLock # NoProc
             \/ /\ proc[p].pc = "lock"
                /\ \E q \in Procs \ {p} : InBody(proc[q]) /\ proc[q].c = proc[p].c

\* Two Writes to different collections are in their bodies at once.
NoCrossBlockingWitness ==
    \E p, q \in Procs :
        /\ proc[p].op = "Write" /\ InBody(proc[p])
        /\ proc[q].op = "Write" /\ InBody(proc[q])
        /\ proc[p].c # proc[q].c

\* C8: a Read(c, r) that follows a successful Write(c, r, v) by the same
\* caller, nothing in between, succeeds and yields v. The code does not keep
\* this for the resource ".": Write stores <c>/..json, and Read's
\* filepath.Join cleans <c>/. to <c> and opens <c>.json.
RoundTrip ==
    \A p \in Procs :
        /\ proc[p].op = "Read" /\ proc[p].pc = "done"
        /\ prev[p].v # NoValue
        /\ prev[p].c = proc[p].c /\ prev[p].r = proc[p].r
        => proc[p].err = "ok" /\ proc[p].out = prev[p].v

\* The existing resource files.
ResourceFiles(f) == {q \in DOMAIN f : IsFinal(q) /\ ~f[q].isDir}

\* C9: an Update(c, r, v) that finds no file <c>/<r>.json returns NotFound,
\* and no step of an Update changes the set of existing resource files. The
\* code does not keep this: stat() accepts <c>/<r>.json.json in place of
\* <c>/<r>.json, and ioutil.WriteFile then creates <c>/<r>.json.
UpdateNeverCreates ==
    [][\A p \in Procs :
        proc[p].op = "Update" /\ proc'[p] # proc[p] /\ proc[p].pc # "done"
        => /\ ResourceFiles(fs') = ResourceFiles(fs)
           /\ proc[p].pc = "stat" /\ UpdatePath(proc[p].c, proc[p].r) \notin DOMAIN fs
              => proc'[p].err = "NotFound"]_vars

\* C10: a successful Delete(c, r) with c and r non-empty removes the file
\* <c>/<r>.json and nothing else: every other file and directory, the
\* collection directory among them, is there afterwards, unchanged. The code
\* does not keep this for the resource ".": filepath.Join(c, ".") is the
\* collection directory, which os.RemoveAll removes with all its resources.
DeleteRemovesOnlyFile ==
    [][\A p \in Procs :
        /\ At(p, "Delete", "remove") /\ proc'[p].pc = "done" /\ proc'[p].err = "ok"
        /\ proc[p].c # EmptyStr /\ proc[p].r # EmptyStr
        => \A q \in DOMAIN fs \ {fnlPath(proc[p].c, proc[p].r)} :
              q \in DOMAIN fs' /\ fs'[q] = fs[q]]_vars

\* The directories of the collections other than c, and what they hold: the
\* paths at or below a directory of the storage root whose name is not c.
OtherCollections(f, c) ==
    {q \in DOMAIN f : Len(q) >= 2 /\ q[2] # c /\ f[SubSeq(q, 1, 2)].isDir}

\* C11: a Delete(c, "") with c non-empty that finds the collection directory
\* succeeds, leaves nothing of that directory, and leaves every other
\* collection as it was. The code does not keep this for the collection ".":
\* filepath.Join(d.dir, ".") is the storage root, which os.RemoveAll removes
\* with every collection in it.
DeleteCollection ==
    [][\A p \in Procs :
        /\ At(p, "Delete", "remove") /\ proc'[p] # proc[p]
        /\ proc[p].c # EmptyStr /\ proc[p].r = EmptyStr /\ proc[p].fi = "dir"
        => /\ proc'[p].pc = "done" /\ proc'[p].err = "ok"
           /\ \A q \in DOMAIN fs' : ~IsPrefix(WriteDir(proc[p].c), q)
           /\ \A q \in OtherCollections(fs, proc[p].c) :
                 q \in DOMAIN fs' /\ fs'[q] = fs[q]]_vars

\* C12: a Read(c, r) that follows a successful Delete(c, r) by the same
\* caller, c and r non-empty and nothing in between, fails with NotFound,
\* whatever calls built the store before. The code does not keep this when
\* filepath.Join(c, r) names a directory beside a file of the same name with
\* ".json": Delete removes the directory and Read finds the file.
ReadAfterDelete ==
    \A p \in Procs :
        /\ proc[p].op = "Read" /\ proc[p].pc = "done"
        /\ prev[p].op = "Delete"
        /\ prev[p].c = proc[p].c /\ prev[p].r = proc[p].r
        /\ proc[p].c # EmptyStr /\ proc[p].r # EmptyStr
        => proc[p].err = "NotFound"

\* The call fr is one that Write, Read, Update or ReadAll must reject: its
\* collection is empty or, ReadAll aside, its resource is.
EmptyName(fr) ==
    /\ fr.op \in {"Write", "Read", "Update", "ReadAll"}
    /\ fr.c = EmptyStr \/ (fr.op # "ReadAll" /\ fr.r = EmptyStr)

\* C13: a Write, Read or Update called with an empty collection or an empty
\* resource, and a ReadAll called with an empty collection, returns an error
\* at once, and the call leaves the filesystem tree, the lock registry, the
\* registry lock and every collection lock as they were.
RejectsEmptyNames ==
    [][\A p \in Procs :
        Resting(p) /\ proc'[p] # proc[p] /\ EmptyName(proc'[p])
        => /\ proc'[p].pc = "done"
           /\ proc'[p].err \in {"Missing collection", "Missing resource"}
           /\ UNCHANGED <<fs, regLock, mutexes, locked>>]_vars

\* An Update with an empty resource has been rejected in a store that holds
\* a resource file and a registered collection lock.
RejectsEmptyNamesWitness ==
    \E p \in Procs :
        /\ proc[p].op = "Update" /\ proc[p].pc = "done"
        /\ proc[p].c # EmptyStr /\ proc[p].r = EmptyStr
        /\ proc[p].err = "Missing resource"
        /\ DOMAIN mutexes # {}
        /\ \E q \in DOMAIN fs : IsFinal(q)

\* C14: a ReadAll(c) whose stat finds no <rootDir>/<c> returns NotFound, and
\* no ReadAll returns successfully when that directory is absent. The code
\* does not keep this: stat() accepts the file <rootDir>/<c>.json in place of
\* the directory, the error of ioutil.ReadDir is dropped, and ReadAll returns
\* nil records with a nil error.
ReadAllAbsent ==
    [][\A p \in Procs :
        /\ proc[p].op = "ReadAll" /\ proc'[p] # proc[p]
        /\ proc[p].pc \in {"stat", "readdir"}
        /\ ReadAllDir(proc[p].c) \notin DOMAIN fs
        => /\ proc[p].pc = "stat" => proc'[p].pc = "done" /\ proc'[p].err = "NotFound"
           /\ proc'[p].pc = "done" => proc'[p].err # "ok"]_vars

\* C15: every element a successful ReadAll returns, Writes running at the
\* same time or not, is the complete content of a resource file <r>.json of
\* the collection, never that of a temporary file and never a partial
\* document. The code does not keep this: ReadAll reads every entry
\* ioutil.ReadDir lists, the <r>.json.tmp of a Write in flight among them.
ReadAllFinalOnly ==
    \A p \in Procs :
        proc[p].op = "ReadAll" /\ proc[p].pc = "done" /\ proc[p].err = "ok"
        => \A i \in DOMAIN proc[p].records :
              /\ IsFinal(proc[p].records[i].path)
              /\ Complete(proc[p].records[i].data)

\* C16: when a Write or an Update returns an error, the final file
\* <c>/<r>.json is what it was when the call took the collection lock: there
\* with the same content, or absent. The code does not keep this: Update
\* truncates the final file when it opens it, and an ioutil.WriteFile that
\* fails after that leaves the file empty or with part of the document.
ErrorLeavesFinal ==
    [][\A p \in Procs :
        /\ proc[p].op \in {"Write", "Update"} /\ InBody(proc[p])
        /\ proc'[p].pc = "done" /\ proc'[p].err # "ok"
        => SameFile(FilesUnder(fs', WriteDir(proc[p].c)), proc[p].snap,
                    fnlPath(proc[p].c, proc[p].r))]_vars

\* A temporary file: <root>/<collection>/<name>.json.tmp
IsTmp(q) == Len(q) = 3 /\ q[3][Len(q[3])] = "tmp"

\* C19: with no crash, a file <c>/<r>.json.tmp exists only while a Write to
\* (c, r) is in its body, whether the Writes before it succeeded or returned
\* an error. The code does not keep this: a Write whose ioutil.WriteFile or
\* os.Rename fails returns the error and leaves its temporary file behind.
TmpOnlyInFlight ==
    \A q \in DOMAIN fs :
        IsTmp(q) => \E p \in Procs :
                       /\ proc[p].op = "Write" /\ InBody(proc[p])
                       /\ tmpPath(proc[p].c, proc[p].r) = q

\* C20: whatever its arguments, the empty collection among them, every path
\* a Delete removes is at or below the directory of the collection whose lock
\* the call holds; it is never the storage root, and never the directory or
\* a resource of another collection. The code does not keep this: Delete
\* checks no argument, and with an empty collection filepath.Join gives the
\* storage root, or the directory of the collection that resource names.
DeleteStaysInside ==
    [][\A p \in Procs :
        At(p, "Delete", "remove") /\ proc'[p] # proc[p]
        => \A q \in DOMAIN fs \ DOMAIN fs' :
              /\ q # Root
              /\ IsPrefix(WriteDir(proc[p].c), q)
              /\ q \notin OtherCollections(fs, proc[p].c)]_vars

\* The collection locks that are held.
Held == {m \in DOMAIN locked : locked[m]}

\* The callers between mutex.Lock() and the return.
Holders == {p \in Procs : InBody(proc[p])}

\* Every held collection lock is held by one call in its body, the lock it
\* got from getOrCreateMutex, and a call out of its body holds none: no call
\* holds two.
OneLockEach ==
    /\ Cardinality(Held) = Cardinality(Holders)
    /\ \A p \in Holders : proc[p].m \in Held

\* The holder of the registry lock is inside getOrCreateMutex, where it
\* waits for nothing.
RegistryHolderRuns ==
    regLock # NoProc
    => /\ proc[regLock].pc = "registry"
       /\ ENABLED getOrCreateMutex(regLock)

\* While a call is under way, some call under way can take a step.
NoDeadlock ==
    (\E p \in Procs : ~Resting(p)) => \E p \in Procs : ~Resting(p) /\ ENABLED Steps(p)

\* C17: no call holds more than one collection lock, no caller waits for a
\* collection lock while it holds the registry lock, some call under way can
\* always take a step, and under fair scheduling every Write, Update and
\* Delete that has started returns.
EveryCallReturns ==
    /\ [](OneLockEach /\ RegistryHolderRuns /\ NoDeadlock)
    /\ \A p \in Procs : (Locking(p) /\ ~Resting(p)) ~> Resting(p)

\* A Write and a Delete of two callers on the same collection have both
\* returned, the locks of two collections are registered, and none is held.
EveryCallReturnsWitness ==
    \E p, q \in Procs :
        /\ p # q
        /\ proc[p].op = "Write" /\ proc[p].pc = "done" /\ proc[p].err = "ok"
        /\ proc[q].op = "Delete" /\ proc[q].pc = "done" /\ proc[q].err = "ok"
        /\ proc[p].c = proc[q].c
        /\ Cardinality(DOMAIN mutexes) = 2
        /\ Held = {}

\* The call of p has its lock from getOrCreateMutex: it waits for it or
\* holds it.
HasMutex(p) == Locking(p) /\ (proc[p].pc = "lock" \/ InBody(proc[p]))

\* C18: the lock registry only grows: no step removes an entry or gives a
\* name another lock; and every call that has asked for the lock of a
\* collection has the one lock the registry holds for that name, so that
\* callers of the same name, racing on its first use or not, have the same.
RegistryGrows ==
    /\ [](\A p \in Procs :
             HasMutex(p) => /\ proc[p].c \in DOMAIN mutexes
                            /\ proc[p].m = mutexes[proc[p].c])
    /\ [][\A c \in DOMAIN mutexes :
             c \in DOMAIN mutexes' /\ mutexes'[c] = mutexes[c]]_vars

\* Two callers have the same lock for one collection, one in its body and
\* the other waiting, while the registry holds a second collection's lock.
RegistryGrowsWitness ==
    \E p, q \in Procs :
        /\ p # q /\ HasMutex(p) /\ HasMutex(q)
        /\ proc[p].c = proc[q].c /\ proc[p].m = proc[q].m
        /\ InBody(proc[p]) /\ proc[q].pc = "lock"
        /\ \E c \in DOMAIN mutexes : c # proc[p].c /\ mutexes[c] # proc[p].m

====
